---- MODULE Spec2Model ----
(***************************************************************************)
(* Model of src/lib.rs: the index-call iterator adapter.                   *)
(*                                                                         *)
(* A count callback (fetch_item_num / f_len) and an item callback          *)
(* (fetch_item / f) are wrapped into a lazy, length-aware iterator.        *)
(* IndexCallIterator keeps {cxt, length, index}; the closure-based         *)
(* constructors return Map<Range<c_uint|c_int>, F>, which keeps the        *)
(* range's {start, end}.                                                   *)
(*                                                                         *)
(* Integers are modelled with scaled-down widths: c_uint/c_int have CBits  *)
(* bits, usize/isize have UsizeBits bits, and every `as` cast is modelled  *)
(* as the truncation / sign reinterpretation it performs.                  *)
(***************************************************************************)
EXTENDS Integers, Sequences, FiniteSets

VARIABLES
    cxtu,   \* what the unsigned count callback returns when called now
    cxti,   \* what the signed count callback returns when called now
    it      \* slot -> the iterator built in that slot (with its call history)

vars == <<cxtu, cxti, it>>

-----------------------------------------------------------------------------
(* Bounds of the model *)

\* width in bits of c_uint / c_int in the model
CBits == 3
\* width in bits of usize / isize in the model (never narrower than c_uint)
UsizeBits == 4
\* largest count the callbacks return in the explored runs
MaxCount == 3
\* most negative count the signed callback returns is -MaxNeg
MaxNeg == 3
\* longest history of next/len calls on one iterator
MaxCalls == 5

-----------------------------------------------------------------------------
(* Integer types and casts *)

RECURSIVE Pow2(_)
Pow2(n) == IF n = 0 THEN 1 ELSE 2 * Pow2(n - 1)

CUintMod == Pow2(CBits)
UsizeMod == Pow2(UsizeBits)

\* two's complement value of the low `bits` bits of v
ToSigned(v, bits) ==
    LET m == v % Pow2(bits)
    IN  IF m >= Pow2(bits - 1) THEN m - Pow2(bits) ELSE m

CUintRange == 0 .. (CUintMod - 1)
CIntRange == (0 - Pow2(CBits - 1)) .. (Pow2(CBits - 1) - 1)

\* impl UnsignedIndexable for c_uint: self as usize
UnsignedFromIndex(v) == v % UsizeMod

\* impl SignedIndexable for c_int: self as isize
SignedFromIndex(v) == ToSigned(v, UsizeBits)

\* `len as usize` on an isize
IsizeAsUsize(v) == v % UsizeMod

\* impl Indexable for c_uint: idx as c_uint
AsIndexUnsigned(idx) == idx % CUintMod

\* faulty variant: the cast goes through a type one bit narrower than c_int
AsIndexSigned_Narrow(idx) == ToSigned(idx, CBits - 1)

\* impl Indexable for c_int: idx as c_int
AsIndexSigned(idx) == ToSigned(idx, CBits)

\* CxtT::ItemNum::as_index, dispatched on the ItemNum type of the context
AsIndex(num, idx) ==
    IF num = "c_uint" THEN AsIndexUnsigned(idx) ELSE AsIndexSigned(idx)

-----------------------------------------------------------------------------
(* Callbacks *)

\* IndexCallable::fetch_item(idx, num): an arbitrary function of both
\* arguments, kept symbolic as the pair of its arguments.
FetchItem(idx, num) == <<idx, num>>

\* The closure f(idx) taken by the closure-based constructors: an arbitrary
\* function of the index alone, kept symbolic.
ClosureItem(idx) == <<idx>>

\* counts the callbacks return in the explored runs
UCounts == {v \in (0 .. MaxCount) \cup {CUintMod - 1} : v \in CUintRange}
ICounts == {v \in ((0 - MaxNeg) .. MaxCount) \cup {0 - Pow2(CBits - 1)} :
                v \in CIntRange}

-----------------------------------------------------------------------------
(* Iterator objects *)

Some(x) == <<"Some", x>>
None == <<"None">>

\* A slot in which no constructor has run yet.
Unbuilt ==
    [status  |-> "unbuilt",  \* unbuilt | present | absent | aborted
     ctor    |-> "none",     \* the constructor that ran
     kind    |-> "none",     \* IndexCallIterator | MapRange
     num     |-> "none",     \* ItemNum type: c_uint | c_int
     length  |-> 0,          \* IndexCallIterator.length
     index   |-> 0,          \* IndexCallIterator.index
     start   |-> 0,          \* Range.start
     end     |-> 0,          \* Range.end
     count0  |-> 0,          \* what the count callback returned at construction
     queries |-> 0,          \* invocations of the count callback
     fetched |-> <<>>,       \* arguments of every item callback invocation
     panicked |-> FALSE,     \* an assert! of len() failed
     log     |-> <<>>]       \* the calls made on the iterator and their results

\* faulty variant: the constructor fetches the first item eagerly
IndexCallIteratorValue_Prefetch(ctorName, numType, n, len) ==
    [Unbuilt EXCEPT !.status = "present", !.ctor = ctorName,
                    !.kind = "IndexCallIterator", !.num = numType,
                    !.length = len, !.index = 0,
                    !.count0 = n, !.queries = 1,
                    !.fetched = IF len > 0 THEN <<<<0, n>>>> ELSE <<>>]

\* struct IndexCallIterator { cxt, length, index } built by a constructor
IndexCallIteratorValue(ctorName, numType, n, len) ==
    [Unbuilt EXCEPT !.status = "present", !.ctor = ctorName,
                    !.kind = "IndexCallIterator", !.num = numType,
                    !.length = len, !.index = 0,
                    !.count0 = n, !.queries = 1]

\* Box::new((0..len).map(f))
MapRangeValue(ctorName, numType, n) ==
    [Unbuilt EXCEPT !.status = "present", !.ctor = ctorName,
                    !.kind = "MapRange", !.num = numType,
                    !.start = 0, !.end = n,
                    !.count0 = n, !.queries = 1]

\* a constructor that returned None, or hit assert_eq!(len, -1)
NoValue(ctorName, numType, n, outcome) ==
    [Unbuilt EXCEPT !.status = outcome, !.ctor = ctorName, !.num = numType,
                    !.count0 = n, !.queries = 1]

-----------------------------------------------------------------------------
(* Constructors *)

\* IndexCallIterator::new
NewValue(n) ==
    LET len == UnsignedFromIndex(n)
    IN  IndexCallIteratorValue("new", "c_uint", n, len)

New(s) ==
    /\ it[s].status = "unbuilt"
    /\ it' = [it EXCEPT ![s] = NewValue(cxtu)]
    /\ UNCHANGED <<cxtu, cxti>>

\* new_index_call_iterator
NewIndexCallIteratorValue(n) ==
    MapRangeValue("new_index_call_iterator", "c_uint", n)

NewIndexCallIterator(s) ==
    /\ it[s].status = "unbuilt"
    /\ it' = [it EXCEPT ![s] = NewIndexCallIteratorValue(cxtu)]
    /\ UNCHANGED <<cxtu, cxti>>

\* faulty variant: every negative count is taken as "no sequence"
NewCheckPositiveValue_AnyNegativeAbsent(n) ==
    LET len == SignedFromIndex(n)
    IN  IF len >= 0
        THEN [Unbuilt EXCEPT !.status = "present",
                             !.ctor = "new_check_positive",
                             !.kind = "IndexCallIterator", !.num = "c_int",
                             !.length = IsizeAsUsize(len), !.index = 0,
                             !.count0 = n, !.queries = 1]
        ELSE [Unbuilt EXCEPT !.status = "absent",
                             !.ctor = "new_check_positive", !.num = "c_int",
                             !.count0 = n, !.queries = 1]

\* IndexCallIterator::new_check_positive
NewCheckPositiveValue(n) ==
    LET len == SignedFromIndex(n)
    IN  IF len >= 0
        THEN IndexCallIteratorValue("new_check_positive", "c_int", n,
                                    IsizeAsUsize(len))
        ELSE IF len = -1
             THEN NoValue("new_check_positive", "c_int", n, "absent")
             ELSE NoValue("new_check_positive", "c_int", n, "aborted")

NewCheckPositive(s) ==
    /\ it[s].status = "unbuilt"
    /\ it' = [it EXCEPT ![s] = NewCheckPositiveValue(cxti)]
    /\ UNCHANGED <<cxtu, cxti>>

\* faulty variant: the guard is `len > 0`, so a count of 0 reaches the assertion
NewIndexCallIteratorCheckPositiveValue_StrictlyPositive(n) ==
    LET len == n
        name == "new_index_call_iterator_check_positive"
    IN  IF len > 0
        THEN [Unbuilt EXCEPT !.status = "present", !.ctor = name,
                             !.kind = "MapRange", !.num = "c_int",
                             !.start = 0, !.end = len,
                             !.count0 = n, !.queries = 1]
        ELSE [Unbuilt EXCEPT !.status = IF len = -1 THEN "absent"
                                                    ELSE "aborted",
                             !.ctor = name, !.num = "c_int",
                             !.count0 = n, !.queries = 1]

\* new_index_call_iterator_check_positive
NewIndexCallIteratorCheckPositiveValue(n) ==
    LET len == n
    IN  IF len >= 0
        THEN MapRangeValue("new_index_call_iterator_check_positive",
                           "c_int", len)
        ELSE IF len = -1
             THEN NoValue("new_index_call_iterator_check_positive",
                          "c_int", n, "absent")
             ELSE NoValue("new_index_call_iterator_check_positive",
                          "c_int", n, "aborted")

NewIndexCallIteratorCheckPositive(s) ==
    /\ it[s].status = "unbuilt"
    /\ it' = [it EXCEPT ![s] = NewIndexCallIteratorCheckPositiveValue(cxti)]
    /\ UNCHANGED <<cxtu, cxti>>

-----------------------------------------------------------------------------
(* Iterator operations *)

Logged(r, opName, result) == Append(r.log, [op |-> opName, ret |-> result])

\* faulty variant: the index passed to fetch_item is read after the increment
NextValue_IndexAfterIncrement(r) ==
    IF r.index < r.length
    THEN LET idx  == r.index + 1
             item == FetchItem(AsIndex(r.num, idx), AsIndex(r.num, r.length))
         IN  [r EXCEPT !.index = (r.index + 1) % UsizeMod,
                       !.fetched = Append(r.fetched,
                                          <<AsIndex(r.num, idx),
                                            AsIndex(r.num, r.length)>>),
                       !.log = Append(r.log, [op |-> "next",
                                              ret |-> Some(item)])]
    ELSE [r EXCEPT !.log = Append(r.log, [op |-> "next", ret |-> None])]

\* faulty variant: the bound test is `index <= length`
NextValue_InclusiveBound(r) ==
    IF r.index <= r.length
    THEN LET idx  == r.index
             item == FetchItem(AsIndex(r.num, idx), AsIndex(r.num, r.length))
         IN  [r EXCEPT !.index = (r.index + 1) % UsizeMod,
                       !.fetched = Append(r.fetched,
                                          <<AsIndex(r.num, idx),
                                            AsIndex(r.num, r.length)>>),
                       !.log = Append(r.log, [op |-> "next",
                                              ret |-> Some(item)])]
    ELSE [r EXCEPT !.log = Append(r.log, [op |-> "next", ret |-> None])]

\* faulty variant: the index is advanced on every call, also past the end
NextValue_AlwaysAdvance(r) ==
    IF r.index < r.length
    THEN LET idx  == r.index
             item == FetchItem(AsIndex(r.num, idx), AsIndex(r.num, r.length))
         IN  [r EXCEPT !.index = (r.index + 1) % UsizeMod,
                       !.fetched = Append(r.fetched,
                                          <<AsIndex(r.num, idx),
                                            AsIndex(r.num, r.length)>>),
                       !.log = Append(r.log, [op |-> "next",
                                              ret |-> Some(item)])]
    ELSE [r EXCEPT !.index = (r.index + 1) % UsizeMod,
                   !.log = Append(r.log, [op |-> "next", ret |-> None])]

\* faulty variant: reaching the end rewinds the cursor, so the sequence cycles
NextValue_Restarts(r) ==
    IF r.index < r.length
    THEN LET idx  == r.index
             item == FetchItem(AsIndex(r.num, idx), AsIndex(r.num, r.length))
         IN  [r EXCEPT !.index = (r.index + 1) % UsizeMod,
                       !.fetched = Append(r.fetched,
                                          <<AsIndex(r.num, idx),
                                            AsIndex(r.num, r.length)>>),
                       !.log = Append(r.log, [op |-> "next",
                                              ret |-> Some(item)])]
    ELSE [r EXCEPT !.index = 0,
                   !.log = Append(r.log, [op |-> "next", ret |-> None])]

\* Iterator::next for IndexCallIterator
NextValue(r) ==
    IF r.index < r.length
    THEN LET idx  == r.index
             item == FetchItem(AsIndex(r.num, idx), AsIndex(r.num, r.length))
         IN  [r EXCEPT !.index = (r.index + 1) % UsizeMod,
                       !.fetched = Append(r.fetched,
                                          <<AsIndex(r.num, idx),
                                            AsIndex(r.num, r.length)>>),
                       !.log = Logged(r, "next", Some(item))]
    ELSE [r EXCEPT !.log = Logged(r, "next", None)]

IterNext(s) ==
    /\ it[s].status = "present"
    /\ it[s].kind = "IndexCallIterator"
    /\ ~it[s].panicked
    /\ Len(it[s].log) < MaxCalls
    /\ it' = [it EXCEPT ![s] = NextValue(it[s])]
    /\ UNCHANGED <<cxtu, cxti>>

\* faulty variant: len() reports the total count, not what remains
LenValue_IgnoresIndex(r) ==
    IF r.index <= r.length
    THEN [r EXCEPT !.log = Append(r.log, [op |-> "len",
                                          ret |-> <<"Ok", r.length>>])]
    ELSE [r EXCEPT !.panicked = TRUE,
                   !.log = Append(r.log, [op |-> "len", ret |-> <<"Panic">>])]

\* faulty variant: len() asks the count callback again instead of reading `length`
LenValue_Requery(r) ==
    LET now == IF r.num = "c_uint"
               THEN UnsignedFromIndex(cxtu)
               ELSE IsizeAsUsize(SignedFromIndex(cxti))
    IN  IF r.index <= now
        THEN [r EXCEPT !.queries = r.queries + 1,
                       !.log = Append(r.log, [op |-> "len",
                                              ret |-> <<"Ok", now - r.index>>])]
        ELSE [r EXCEPT !.queries = r.queries + 1,
                       !.panicked = TRUE,
                       !.log = Append(r.log, [op |-> "len",
                                              ret |-> <<"Panic">>])]

\* ExactSizeIterator::len for IndexCallIterator
LenValue(r) ==
    IF r.index <= r.length
    THEN [r EXCEPT !.log = Logged(r, "len", <<"Ok", r.length - r.index>>)]
    ELSE [r EXCEPT !.panicked = TRUE, !.log = Logged(r, "len", <<"Panic">>)]

IterLen(s) ==
    /\ it[s].status = "present"
    /\ it[s].kind = "IndexCallIterator"
    /\ ~it[s].panicked
    /\ Len(it[s].log) < MaxCalls
    /\ it' = [it EXCEPT ![s] = LenValue(it[s])]
    /\ UNCHANGED <<cxtu, cxti>>

\* Iterator::next of (0..len).map(f): Range::next, then f on the item
MapRangeNextValue(r) ==
    IF r.start < r.end
    THEN LET n == r.start
         IN  [r EXCEPT !.start = r.start + 1,
                       !.fetched = Append(r.fetched, <<n>>),
                       !.log = Logged(r, "next", Some(ClosureItem(n)))]
    ELSE [r EXCEPT !.log = Logged(r, "next", None)]

MapRangeNext(s) ==
    /\ it[s].status = "present"
    /\ it[s].kind = "MapRange"
    /\ Len(it[s].log) < MaxCalls
    /\ it' = [it EXCEPT ![s] = MapRangeNextValue(it[s])]
    /\ UNCHANGED <<cxtu, cxti>>

\* ExactSizeIterator::len of (0..len).map(f): the range's exact size
MapRangeLenValue(r) ==
    LET size == IF r.start < r.end THEN r.end - r.start ELSE 0
    IN  [r EXCEPT !.log = Logged(r, "len", <<"Ok", size>>)]

MapRangeLen(s) ==
    /\ it[s].status = "present"
    /\ it[s].kind = "MapRange"
    /\ Len(it[s].log) < MaxCalls
    /\ it' = [it EXCEPT ![s] = MapRangeLenValue(it[s])]
    /\ UNCHANGED <<cxtu, cxti>>

\* The external source behind the count callbacks changes what it reports.
ChangeCount ==
    /\ \E u \in UCounts, i \in ICounts :
          /\ <<u, i>> # <<cxtu, cxti>>
          /\ cxtu' = u
          /\ cxti' = i
    /\ UNCHANGED it

-----------------------------------------------------------------------------
(* Specifications *)

\* One iterator, built by any of the four constructors, over a source whose
\* reported count may change at any time.
Init ==
    /\ cxtu \in UCounts
    /\ cxti \in ICounts
    /\ it = [s \in {1} |-> Unbuilt]

Next ==
    \/ New(1)
    \/ NewIndexCallIterator(1)
    \/ NewCheckPositive(1)
    \/ NewIndexCallIteratorCheckPositive(1)
    \/ IterNext(1)
    \/ IterLen(1)
    \/ MapRangeNext(1)
    \/ MapRangeLen(1)
    \/ ChangeCount

Spec == Init /\ [][Next]_vars

\* Two iterators built from one provider that reports the same count n
\* through its unsigned and its signed callback (a negative n only through
\* the signed one), to compare constructors side by side.
InitPair ==
    /\ cxti \in ICounts
    /\ cxtu = (IF cxti >= 0 THEN cxti ELSE 0)
    /\ it = [s \in {1, 2} |-> Unbuilt]

NextPair ==
    \/ New(1)
    \/ NewCheckPositive(1)
    \/ NewCheckPositive(2)
    \/ NewIndexCallIterator(2)
    \/ NewIndexCallIteratorCheckPositive(2)
    \/ \E s \in {1, 2} : IterNext(s)
    \/ \E s \in {1, 2} : IterLen(s)
    \/ MapRangeNext(2)
    \/ MapRangeLen(2)

SpecPair == InitPair /\ [][NextPair]_vars

-----------------------------------------------------------------------------
(* Reading a call history *)

SomeEntry(e) == e.op = "next" /\ e.ret[1] = "Some"
NoneEntry(e) == e.op = "next" /\ e.ret[1] = "None"
LenEntry(e) == e.op = "len"

\* number of items produced by the calls lo..hi of a history
SomesIn(log, lo, hi) == Cardinality({p \in lo .. hi : SomeEntry(log[p])})

\* the items produced, in order
Items(log) ==
    LET produced == SelectSeq(log, SomeEntry)
    IN  [i \in 1 .. Len(produced) |-> produced[i].ret[2]]

\* the operations called, in order, without their results
Calls(log) == [i \in 1 .. Len(log) |-> log[i].op]

\* next has signalled end-of-sequence at least once
Exhausted(r) == \E p \in 1 .. Len(r.log) : NoneEntry(r.log[p])

\* the call a step has just made on r (r2 is r after the step)
Called(r, r2) == Len(r2.log) = Len(r.log) + 1
LastCall(r2) == r2.log[Len(r2.log)]

IsIndexCall(r) == r.status = "present" /\ r.kind = "IndexCallIterator"

Slots == DOMAIN it

-----------------------------------------------------------------------------
(* C1 *)

\* f(0,n), f(1,n), ..., f(n-1,n)
ExpectedItems(n) == [i \in 1 .. n |-> FetchItem(i - 1, n)]

\* C1: a sequence built by IndexCallIterator::new over count n produces
\* f(0,n), f(1,n), ... in that order (at every moment the items produced so
\* far are a prefix of that list), exactly all n of them once next has
\* signalled end-of-sequence, and len() called before any item is consumed
\* returns n.
C1_FullSequence ==
    \A s \in Slots :
        LET r == it[s]
            n == r.count0
            got == Items(r.log)
        IN  (r.ctor = "new") =>
              /\ r.status = "present"
              /\ Len(got) <= n
              /\ got = SubSeq(ExpectedItems(n), 1, Len(got))
              /\ Exhausted(r) => got = ExpectedItems(n)
              /\ \A p \in 1 .. Len(r.log) :
                    (LenEntry(r.log[p]) /\ SomesIn(r.log, 1, p) = 0)
                        => r.log[p].ret = <<"Ok", n>>

C1_Witness ==
    /\ it[1].ctor = "new"
    /\ it[1].count0 >= 2
    /\ Len(it[1].log) >= 1
    /\ LenEntry(it[1].log[1])
    /\ Exhausted(it[1])
    /\ Len(Items(it[1].log)) = it[1].count0

-----------------------------------------------------------------------------
(* C2 *)

CheckCtors == {"new_check_positive", "new_index_call_iterator_check_positive"}

\* the count and the cursor an iterator holds
SeqCount(r) == IF r.kind = "IndexCallIterator" THEN r.length ELSE r.end
SeqCursor(r) == IF r.kind = "IndexCallIterator" THEN r.index ELSE r.start

\* a step in which a guarded constructor runs in slot s
GuardedBuild(s) ==
    /\ it[s].status = "unbuilt"
    /\ it'[s].status # "unbuilt"
    /\ it'[s].ctor \in CheckCtors

\* C2: guarded construction has exactly three outcomes, decided by the signed
\* count n the count callback returns: n >= 0 gives a present sequence with
\* count n and cursor 0, n = -1 gives absent, n < -1 aborts.
C2_GuardedOutcomes ==
    [][\A s \in Slots :
          GuardedBuild(s) =>
            /\ it'[s].status \in {"present", "absent", "aborted"}
            /\ (cxti >= 0) <=> (it'[s].status = "present")
            /\ (cxti = -1) <=> (it'[s].status = "absent")
            /\ (cxti < -1) <=> (it'[s].status = "aborted")
            /\ (it'[s].status = "present") =>
                  /\ SeqCount(it'[s]) = cxti
                  /\ SeqCursor(it'[s]) = 0]_vars

C2_Witness ==
    /\ it[1].ctor = "new_check_positive"
    /\ it[1].status = "aborted"
    /\ it[1].count0 < -1

-----------------------------------------------------------------------------
(* C3 *)

\* C3: on a sequence constructed with count n, a len() call made after k
\* items were produced returns n - k, and that is the number of items the
\* later next calls produce before end-of-sequence.
C3_RemainingCount ==
    \A s \in Slots :
        LET r == it[s]
            n == r.count0
            last == Len(r.log)
        IN  IsIndexCall(r) =>
              /\ SomesIn(r.log, 1, last) <= n
              /\ \A p \in 1 .. last :
                    LenEntry(r.log[p]) =>
                      /\ r.log[p].ret = <<"Ok", n - SomesIn(r.log, 1, p)>>
                      /\ Exhausted(r) =>
                            r.log[p].ret = <<"Ok", SomesIn(r.log, p, last)>>

C3_Witness ==
    /\ IsIndexCall(it[1])
    /\ it[1].count0 >= 2
    /\ Exhausted(it[1])
    /\ \E p \in 2 .. Len(it[1].log) :
          /\ LenEntry(it[1].log[p])
          /\ SomesIn(it[1].log, 1, p) = 1
          /\ SomesIn(it[1].log, p, Len(it[1].log)) = it[1].count0 - 1

-----------------------------------------------------------------------------
(* C4 *)

\* the count callback's value converted to usize, as the constructor does
StoredLength(r) ==
    IF r.num = "c_uint"
    THEN UnsignedFromIndex(r.count0)
    ELSE IsizeAsUsize(SignedFromIndex(r.count0))

\* C4: every invocation fetch_item(idx, num) of a sequence built by new or
\* new_check_positive has 0 <= idx < num, and num is the value the count
\* callback returned at construction (converted to usize and back).
C4_FetchArguments ==
    \A s \in Slots :
        LET r == it[s]
        IN  (r.ctor \in {"new", "new_check_positive"}) =>
              \A j \in 1 .. Len(r.fetched) :
                  /\ 0 <= r.fetched[j][1]
                  /\ r.fetched[j][1] < r.fetched[j][2]
                  /\ r.fetched[j][2] = AsIndex(r.num, StoredLength(r))
                  /\ r.fetched[j][2] = r.count0

C4_Witness ==
    /\ it[1].ctor = "new_check_positive"
    /\ Len(it[1].fetched) = it[1].count0
    /\ it[1].count0 >= 2

-----------------------------------------------------------------------------
(* C5 *)

\* a step in which next is called on the IndexCallIterator of slot s
NextCalled(s) ==
    /\ IsIndexCall(it[s])
    /\ Called(it[s], it'[s])
    /\ LastCall(it'[s]).op = "next"

\* C5: 0 <= index <= length in every reachable state, so the assertion of
\* len() never fails; and next signals end-of-sequence in a state if and
\* only if index = length in that state.
C5_CursorInvariant ==
    /\ [](\A s \in Slots :
             IsIndexCall(it[s]) =>
                /\ 0 <= it[s].index
                /\ it[s].index <= it[s].length
                /\ ~it[s].panicked
                /\ \A p \in 1 .. Len(it[s].log) :
                      it[s].log[p].ret # <<"Panic">>)
    /\ [][\A s \in Slots :
             NextCalled(s) =>
                (NoneEntry(LastCall(it'[s])) <=>
                    (it[s].index = it[s].length))]_vars

C5_Witness ==
    /\ IsIndexCall(it[1])
    /\ it[1].length >= 2
    /\ it[1].index = it[1].length
    /\ Len(it[1].log) >= 2
    /\ NoneEntry(it[1].log[Len(it[1].log) - 1])
    /\ it[1].log[Len(it[1].log)] = [op |-> "len", ret |-> <<"Ok", 0>>]

-----------------------------------------------------------------------------
(* C6 *)

\* C6: once next has returned None, every later next returns None without
\* invoking the item callback, index and length stay as they are, and len()
\* returns 0.
C6_ExhaustedStaysExhausted ==
    [][\A s \in Slots :
          (IsIndexCall(it[s]) /\ Exhausted(it[s])) =>
             /\ it'[s].index = it[s].index
             /\ it'[s].length = it[s].length
             /\ it'[s].fetched = it[s].fetched
             /\ Called(it[s], it'[s]) =>
                   IF LastCall(it'[s]).op = "next"
                   THEN LastCall(it'[s]).ret = None
                   ELSE LastCall(it'[s]).ret = <<"Ok", 0>>]_vars

C6_Witness ==
    /\ IsIndexCall(it[1])
    /\ it[1].count0 >= 1
    /\ \E p \in 1 .. Len(it[1].log) :
          /\ NoneEntry(it[1].log[p])
          /\ \E q \in (p + 1) .. Len(it[1].log) : NoneEntry(it[1].log[q])
          /\ \E q \in (p + 1) .. Len(it[1].log) : LenEntry(it[1].log[q])

-----------------------------------------------------------------------------
(* C7 *)

\* C7: when the signed count callback returns -1, guarded construction
\* returns absent and the item callback is never invoked; and no constructor
\* invokes the item callback: it has been invoked exactly once per item that
\* next has produced.
C7_NoFetchWithoutNext ==
    \A s \in Slots :
        LET r == it[s]
        IN  /\ (r.ctor \in CheckCtors /\ r.count0 = -1) =>
                  (r.status = "absent" /\ r.fetched = <<>>)
            /\ (r.status \in {"unbuilt", "absent", "aborted"}) =>
                  (r.fetched = <<>> /\ r.log = <<>>)
            /\ Len(r.fetched) = SomesIn(r.log, 1, Len(r.log))

C7_Witness ==
    /\ it[1].ctor = "new_check_positive"
    /\ it[1].status = "absent"
    /\ it[1].count0 = -1
    /\ cxti >= 1

-----------------------------------------------------------------------------
(* C9 *)

\* C9: the count callback is invoked exactly once, by the constructor, and
\* never by next or len; the stored count is never modified after
\* construction; and what the callback would return later has no effect:
\* len() and the number of items follow the count returned at construction.
C9_CountCapturedOnce ==
    /\ [](\A s \in Slots :
             /\ it[s].queries = (IF it[s].status = "unbuilt" THEN 0 ELSE 1)
             /\ (it[s].status = "present") =>
                   /\ SeqCount(it[s]) = it[s].count0
                   /\ SomesIn(it[s].log, 1, Len(it[s].log)) <= it[s].count0
                   /\ Exhausted(it[s]) =>
                         SomesIn(it[s].log, 1, Len(it[s].log)) = it[s].count0
                   /\ \A p \in 1 .. Len(it[s].log) :
                         LenEntry(it[s].log[p]) =>
                            it[s].log[p].ret =
                               <<"Ok", it[s].count0 - SomesIn(it[s].log, 1, p)>>)
    /\ [][\A s \in Slots :
             (it[s].status # "unbuilt") =>
                /\ it'[s].queries = it[s].queries
                /\ it'[s].length = it[s].length
                /\ it'[s].end = it[s].end
                /\ it'[s].count0 = it[s].count0]_vars

C9_Witness ==
    /\ IsIndexCall(it[1])
    /\ it[1].ctor = "new"
    /\ it[1].count0 = 2
    /\ cxtu = 3
    /\ Exhausted(it[1])
    /\ LenEntry(it[1].log[Len(it[1].log)])

-----------------------------------------------------------------------------
(* C8 and C10: two constructors side by side *)

Min(a, b) == IF a <= b THEN a ELSE b

\* a history with every item replaced by the index it was fetched for
ByIndex(log) ==
    [i \in 1 .. Len(log) |->
        IF SomeEntry(log[i])
        THEN [op |-> "next", ret |-> Some(log[i].ret[2][1])]
        ELSE log[i]]

\* whenever the two histories start with the same p calls, the p-th results
\* are the same
SameResults(la, lb) ==
    \A p \in 1 .. Min(Len(la), Len(lb)) :
        (SubSeq(Calls(la), 1, p) = SubSeq(Calls(lb), 1, p)) => la[p] = lb[p]

\* C8: for a signed count n >= 0, the sequence new_check_positive returns is
\* present and behaves as the sequence new returns for the unsigned count n:
\* under the same next and len calls both return the same items, the same
\* len values and end-of-sequence at the same step.
C8_GuardedMatchesUnconditional ==
    LET a == it[1]
        b == it[2]
    IN  (/\ a.ctor = "new"
         /\ b.ctor = "new_check_positive"
         /\ b.count0 >= 0
         /\ a.count0 = b.count0) =>
            /\ a.status = "present"
            /\ b.status = "present"
            /\ SameResults(a.log, b.log)

C8_Witness ==
    /\ it[1].ctor = "new"
    /\ it[2].ctor = "new_check_positive"
    /\ it[1].count0 = it[2].count0
    /\ it[1].count0 >= 2
    /\ Calls(it[1].log) = Calls(it[2].log)
    /\ Exhausted(it[2])
    /\ \E p \in 2 .. Len(it[2].log) :
          LenEntry(it[2].log[p]) /\ SomesIn(it[2].log, 1, p) >= 1

\* C10: the closure-based constructors behave as the trait-based ones with
\* an item function of the index alone: new_index_call_iterator as new, and
\* new_index_call_iterator_check_positive as new_check_positive (present,
\* absent or aborted in the same cases, the same sequence when present).
C10_ClosureMatchesTrait ==
    LET a == it[1]
        b == it[2]
    IN  /\ (/\ a.ctor = "new"
            /\ b.ctor = "new_index_call_iterator"
            /\ a.count0 = b.count0) =>
               /\ a.status = "present"
               /\ b.status = "present"
               /\ SameResults(ByIndex(a.log), ByIndex(b.log))
        /\ (/\ a.ctor = "new_check_positive"
            /\ b.ctor = "new_index_call_iterator_check_positive"
            /\ a.count0 = b.count0) =>
               /\ a.status = b.status
               /\ SameResults(ByIndex(a.log), ByIndex(b.log))

C10_Witness ==
    /\ it[1].ctor = "new_check_positive"
    /\ it[2].ctor = "new_index_call_iterator_check_positive"
    /\ it[1].count0 = it[2].count0
    /\ it[1].count0 >= 2
    /\ Calls(it[1].log) = Calls(it[2].log)
    /\ Exhausted(it[2])
    /\ \E p \in 2 .. Len(it[2].log) :
          LenEntry(it[2].log[p]) /\ SomesIn(it[2].log, 1, p) >= 1

====
